---- MODULE Spec2Model ----
(***************************************************************************)
(* Model of the calculation rules of the personal-finance pages:           *)
(*   DebtsPage.calculatePayoffDate, AccountsPage totals (both copies of    *)
(*   the page), BudgetPage pay-period figures, SavingsPage pacing and      *)
(*   BillsPage status / day count.                                         *)
(*                                                                         *)
(* Numbers.  A JavaScript number is modelled by a record                   *)
(*   [k |-> "num", v |-> i]   a finite value (an integer here)             *)
(*   [k |-> "NaN", v |-> 0], [k |-> "Infinity", v |-> 0],                  *)
(*   [k |-> "-Infinity", v |-> 0]   the IEEE special values.               *)
(* Quotients that are not integers are kept exact as fractions             *)
(*   [n |-> numerator, d |-> denominator] with d > 0.                      *)
(* Time is counted in ticks, TicksPerDay ticks to a day; a date string     *)
(* 'YYYY-MM-DD' parses to midnight, i.e. to a multiple of TicksPerDay.     *)
(***************************************************************************)
EXTENDS Integers, Sequences, FiniteSets, TLC

VARIABLES debt, months, payoff, accounts, net, budget, currentPeriod, goal,
          pacing, bill, billView, prevView, now,
          debts, debtSummary, data, dashboard, goals, goalSummary,
          bills, billSummary, deployedBills, upcoming,
          env, host, deploy, toggles, ufw, firewall

debtVars == <<debt, months, payoff>>
accountVars == <<accounts, net>>
budgetVars == <<budget, currentPeriod>>
goalVars == <<goal, pacing>>
billVars == <<bill, billView, prevView>>
debtListVars == <<debts, debtSummary>>
\* the state of the pages that render whole lists and of the two scripts
dashboardVars == <<data, dashboard>>
goalListVars == <<goals, goalSummary>>
billListVars == <<bills, billSummary>>
deployedBillVars == <<deployedBills, upcoming>>
deployVars == <<env, host, deploy>>
pageListVars == <<debtListVars, dashboardVars, goalListVars, billListVars,
                  deployedBillVars>>
serverVars == <<toggles, ufw, firewall>>
scriptVars == <<deployVars, serverVars>>
listVars == <<pageListVars, scriptVars>>
\* the state of the single-record calculations and the clock
recordVars == <<debtVars, accountVars, budgetVars, goalVars, billVars, now>>
vars == <<debt, months, payoff, accounts, net, budget, currentPeriod, goal,
          pacing, bill, billView, prevView, now,
          debts, debtSummary, data, dashboard, goals, goalSummary,
          bills, billSummary, deployedBills, upcoming,
          env, host, deploy, toggles, ufw, firewall>>

(***************************************************************************)
(* Bounds of the model.                                                    *)
(***************************************************************************)
MaxDebt == 4
MaxAccounts == 2
MaxBalance == 2
MaxIncome == 6
MaxSpent == 4
MaxAmount == 3
MaxContribution == 2
MaxDay == 3
TicksPerDay == 2
MaxDebts == 2
MaxPrincipal == 2
MaxGoals == 2
MaxTarget == 2
MaxBills == 3

\* the clock runs from tick 0 to the end of day MaxDay
MaxNow == MaxDay * TicksPerDay

None == [k |-> "none", v |-> 0]
Num(i) == [k |-> "num", v |-> i]
NaN == [k |-> "NaN", v |-> 0]
Infinity == [k |-> "Infinity", v |-> 0]
NegInfinity == [k |-> "-Infinity", v |-> 0]

MathAbs(x) == IF x < 0 THEN -x ELSE x

\* Math.ceil(a / b) for b > 0, exact on integers (also for negative a).
MathCeilDiv(a, b) == -((-a) \div b)

(***************************************************************************)
(* DebtsPage.calculatePayoffDate                                           *)
(***************************************************************************)
RECURSIVE Gcd(_, _)
Gcd(a, b) == IF b = 0 THEN a ELSE Gcd(b, a % b)

\* monthlyRate = rate / 100 / 12, as the fraction rate / 1200 in lowest terms
monthlyRate(rate) ==
    LET g == Gcd(1200, rate)
    IN  [n |-> rate \div g, d |-> 1200 \div g]

\* payment - balance * monthlyRate, scaled by the denominator of monthlyRate
PaymentLessInterest(balance, rate, payment) ==
    LET r == monthlyRate(rate)
    IN  payment * r.d - balance * r.n

\* Math.ceil(Math.log(p / q) / Math.log(1 + r)) for p >= q > 0 and r > 0:
\* the least m with (1 + r)^m >= p / q, found by comparing
\* lhs = q * (r.d + r.n)^m with rhs = p * r.d^m for m = 0, 1, ...
RECURSIVE CeilLogRatio(_, _, _, _)
CeilLogRatio(lhs, rhs, r, m) ==
    IF lhs >= rhs THEN m
    ELSE CeilLogRatio(lhs * (r.d + r.n), rhs * r.d, r, m + 1)

\* Math.floor of the same quotient: the greatest m with (1 + r)^m <= p / q
RECURSIVE FloorLogRatio(_, _, _, _)
FloorLogRatio(lhs, rhs, r, m) ==
    IF lhs * (r.d + r.n) > rhs * r.d THEN m
    ELSE FloorLogRatio(lhs * (r.d + r.n), rhs * r.d, r, m + 1)

\* Math.floor in place of Math.ceil (for payment > 0)
calculatePayoffDateMutFloor(balance, rate, payment) ==
    LET r == monthlyRate(rate)
        q == PaymentLessInterest(balance, rate, payment)
        p == payment * r.d
    IN  IF q = 0 THEN Infinity
        ELSE IF q < 0 \/ rate = 0 THEN NaN
        ELSE Num(FloorLogRatio(q, p, r, 0))

\* For balance >= 0, rate >= 0, payment >= 0.  p / q is the argument of the
\* first logarithm; each logarithm is classified as NaN, an infinity, zero or
\* positive, and the quotient and Math.ceil follow IEEE arithmetic.
calculatePayoffDate(balance, rate, payment) ==
    LET r == monthlyRate(rate)
        q == PaymentLessInterest(balance, rate, payment)
        p == payment * r.d
        \* Math.log(payment / (payment - balance * monthlyRate))
        logArg == IF q = 0 THEN (IF p = 0 THEN "NaN" ELSE "Infinity")
                  ELSE IF q < 0 THEN (IF p = 0 THEN "-Infinity" ELSE "NaN")
                  ELSE IF p = q THEN "zero"
                  ELSE "positive"
        \* Math.log(1 + monthlyRate)
        logBase == IF rate = 0 THEN "zero" ELSE "positive"
    IN  CASE logArg = "NaN" -> NaN
          [] logArg = "Infinity" -> Infinity
          [] logArg = "-Infinity" -> NegInfinity
          [] logArg = "zero" -> IF logBase = "zero" THEN NaN ELSE Num(0)
          [] logArg = "positive" ->
                IF logBase = "zero" THEN Infinity
                ELSE Num(CeilLogRatio(q, p, r, 0))

DebtExamples ==
    { [balance |-> 10000, rate |-> 24, payment |-> 150],
      [balance |-> 1000, rate |-> 0, payment |-> 100],
      [balance |-> 300, rate |-> 24, payment |-> 150] }

DebtRates == {0, 600, 1200}

DebtInputs ==
    [balance : 0..MaxDebt, rate : DebtRates, payment : 1..MaxDebt]
        \cup DebtExamples

NoDebt == [balance |-> 0, rate |-> 0, payment |-> 1]

NoPayoff == [k |-> "none"]

DebtIdle == debt = NoDebt /\ months = None /\ payoff = NoPayoff

CalculatePayoffDate ==
    /\ months = None
    /\ months' = calculatePayoffDate(debt.balance, debt.rate, debt.payment)
    /\ UNCHANGED <<debt, payoff, accountVars, budgetVars, goalVars, billVars,
                   now>>
    /\ UNCHANGED listVars

(***************************************************************************)
(* computePayoff of the DebtAmortizationCalculator.  The pages hold no     *)
(* computation of totalInterest (Debt.totalInterest is a stored field), so *)
(* this operation follows the written contract: the zero-rate branch, the  *)
(* UnpayableDebt failure and totalInterest floored at 0.                   *)
(***************************************************************************)
computePayoffMutFloorMonths(balance, annualRatePct, monthlyPayment) ==
    IF ~(PaymentLessInterest(balance, annualRatePct, monthlyPayment) > 0)
    THEN [k |-> "UnpayableDebt"]
    ELSE LET m == IF annualRatePct = 0
                  THEN balance \div monthlyPayment
                  ELSE CeilLogRatio(
                          PaymentLessInterest(balance, annualRatePct,
                                              monthlyPayment),
                          monthlyPayment * monthlyRate(annualRatePct).d,
                          monthlyRate(annualRatePct), 0)
             interest == monthlyPayment * m - balance
         IN  [k |-> "ok", monthsToPayoff |-> m,
              totalInterest |-> IF interest < 0 THEN 0 ELSE interest]

computePayoff(balance, annualRatePct, monthlyPayment) ==
    IF ~(PaymentLessInterest(balance, annualRatePct, monthlyPayment) > 0)
    THEN [k |-> "UnpayableDebt"]
    ELSE LET m == IF annualRatePct = 0
                  THEN MathCeilDiv(balance, monthlyPayment)
                  ELSE CeilLogRatio(
                          PaymentLessInterest(balance, annualRatePct,
                                              monthlyPayment),
                          monthlyPayment * monthlyRate(annualRatePct).d,
                          monthlyRate(annualRatePct), 0)
             interest == monthlyPayment * m - balance
         IN  [k |-> "ok", monthsToPayoff |-> m,
              totalInterest |-> IF interest < 0 THEN 0 ELSE interest]

ComputePayoff ==
    /\ payoff = NoPayoff
    /\ payoff' = computePayoff(debt.balance, debt.rate, debt.payment)
    /\ UNCHANGED <<debt, months, accountVars, budgetVars, goalVars, billVars,
                   now>>
    /\ UNCHANGED listVars

(***************************************************************************)
(* AccountsPage: two copies of the page compute the totals, the one of the *)
(* application sources and the one the deployment script writes out.       *)
(***************************************************************************)
AccountTypes == {"checking", "savings", "credit", "investment"}

Account == [type : AccountTypes, balance : (-MaxBalance)..MaxBalance]

RECURSIVE SumBalance(_)
SumBalance(s) ==
    IF s = <<>> THEN 0 ELSE Head(s).balance + SumBalance(Tail(s))

RECURSIVE SumAbsBalance(_)
SumAbsBalance(s) ==
    IF s = <<>> THEN 0 ELSE MathAbs(Head(s).balance) + SumAbsBalance(Tail(s))

IsAsset(account) == account.type # "credit" /\ account.balance > 0

IsLiability(account) == account.type = "credit" /\ account.balance < 0

totalAssets(accs) == SumBalance(SelectSeq(accs, IsAsset))

totalLiabilities(accs) == SumAbsBalance(SelectSeq(accs, IsLiability))

netWorthMutSum(assets, liabilities) == assets + liabilities

netWorth(assets, liabilities) == assets - liabilities

DeployedIsAsset(a) == a.balance > 0

DeployedIsLiability(a) == a.balance < 0

deployedTotalAssets(accs) == SumBalance(SelectSeq(accs, DeployedIsAsset))

deployedTotalLiabilities(accs) ==
    SumAbsBalance(SelectSeq(accs, DeployedIsLiability))

RECURSIVE SeqsUpTo(_, _)
SeqsUpTo(S, n) ==
    IF n = 0 THEN { <<>> }
    ELSE LET shorter == SeqsUpTo(S, n - 1)
         IN  shorter \cup { Append(s, x) : s \in shorter, x \in S }

NoNet == [page |-> "none", totalAssets |-> 0, totalLiabilities |-> 0,
          netWorth |-> 0]

AccountsIdle == accounts = <<>> /\ net = NoNet

\* the page of the application sources
AccountsPage ==
    /\ net = NoNet
    /\ net' = [page |-> "app",
               totalAssets |-> totalAssets(accounts),
               totalLiabilities |-> totalLiabilities(accounts),
               netWorth |-> netWorth(totalAssets(accounts),
                                     totalLiabilities(accounts))]
    /\ UNCHANGED <<accounts, debtVars, budgetVars, goalVars, billVars, now>>
    /\ UNCHANGED listVars

\* the page written by the deployment script
DeployedAccountsPage ==
    /\ net = NoNet
    /\ net' = [page |-> "deployed",
               totalAssets |-> deployedTotalAssets(accounts),
               totalLiabilities |-> deployedTotalLiabilities(accounts),
               netWorth |-> netWorth(deployedTotalAssets(accounts),
                                     deployedTotalLiabilities(accounts))]
    /\ UNCHANGED <<accounts, debtVars, budgetVars, goalVars, billVars, now>>
    /\ UNCHANGED listVars

(***************************************************************************)
(* BudgetPage                                                              *)
(***************************************************************************)
PayFrequencies == {"weekly", "bi-weekly", "monthly", "quarterly", "yearly"}

biWeeklyIncomeMutInverted(monthlyIncome) == [n |-> monthlyIncome * 26, d |-> 12]

\* budget.monthlyIncome * 12 / 26
biWeeklyIncome(monthlyIncome) == [n |-> monthlyIncome * 12, d |-> 26]

\* a - spent for a fraction a
FracMinus(a, spent) == [n |-> a.n - spent * a.d, d |-> a.d]

\* (currentPeriod.spent / currentPeriod.income) * 100 for spent >= 0 and a
\* fraction income >= 0: a division by 0 gives NaN (0 / 0) or Infinity
percentOfIncomeUsed(spent, income) ==
    IF income.n = 0
    THEN (IF spent = 0 THEN [k |-> "NaN", n |-> 0, d |-> 1]
          ELSE [k |-> "Infinity", n |-> 0, d |-> 1])
    ELSE [k |-> "num", n |-> spent * income.d * 100, d |-> income.n]

\* the tip also shown at exactly 200
recommendationsMutInclusive(remaining) ==
    (IF remaining.n < 0 THEN {"Over Budget Alert"} ELSE {})
    \cup (IF remaining.n > 0 /\ remaining.n <= 200 * remaining.d
          THEN {"Budget Tip"} ELSE {})
    \cup (IF remaining.n >= 200 * remaining.d THEN {"Great Job!"} ELSE {})

\* the cards of the Budget Recommendations block, for a fraction remaining
recommendations(remaining) ==
    (IF remaining.n < 0 THEN {"Over Budget Alert"} ELSE {})
    \cup (IF remaining.n > 0 /\ remaining.n < 200 * remaining.d
          THEN {"Budget Tip"} ELSE {})
    \cup (IF remaining.n >= 200 * remaining.d THEN {"Great Job!"} ELSE {})

\* incomes of 300 and 2076.92 a period, with spendings around them
BudgetExamples ==
    [monthlyIncome : {650, 4500}, payFrequency : {"bi-weekly"},
     spent : {100, 101, 300, 301, 1250}]

NoBudget == [monthlyIncome |-> 0, payFrequency |-> "bi-weekly", spent |-> 0]

NoPeriod == [k |-> "none"]

BudgetIdle == budget = NoBudget /\ currentPeriod = NoPeriod

BudgetPage ==
    /\ currentPeriod = NoPeriod
    /\ currentPeriod' =
          [k |-> "period",
           income |-> biWeeklyIncome(budget.monthlyIncome),
           spent |-> budget.spent,
           percentUsed |->
               percentOfIncomeUsed(budget.spent,
                                   biWeeklyIncome(budget.monthlyIncome)),
           remaining |-> FracMinus(biWeeklyIncome(budget.monthlyIncome),
                                   budget.spent),
           recommendations |->
               recommendations(FracMinus(biWeeklyIncome(budget.monthlyIncome),
                                         budget.spent))]
    /\ UNCHANGED <<budget, debtVars, accountVars, goalVars, billVars, now>>
    /\ UNCHANGED listVars

(***************************************************************************)
(* The ambient clock read by new Date()                                    *)
(***************************************************************************)
Tick ==
    /\ now < MaxNow
    /\ now' = now + 1
    /\ UNCHANGED <<debtVars, accountVars, budgetVars, goalVars, billVars>>
    /\ UNCHANGED listVars

\* new Date('YYYY-MM-DD').getTime() for the date of day number d
DateTime(d) == d * TicksPerDay

(***************************************************************************)
(* SavingsPage                                                             *)
(***************************************************************************)
calculateMonthsRemainingMutFloor(targetDate, currentAmount, targetAmount, contribution) ==
    LET remaining == targetAmount - currentAmount
    IN  IF remaining <= 0 \/ contribution <= 0 THEN 0
        ELSE remaining \div contribution

calculateMonthsRemaining(targetDate, currentAmount, targetAmount, contribution) ==
    LET remaining == targetAmount - currentAmount
    IN  IF remaining <= 0 \/ contribution <= 0 THEN 0
        ELSE MathCeilDiv(remaining, contribution)

\* a 31-day month in place of the flat 30-day month
monthsUntilTargetMut31(g, today) ==
    MathCeilDiv(DateTime(g.targetDate) - today, 31 * TicksPerDay)

\* today is the value of new Date() read inside the function
monthsUntilTarget(g, today) ==
    MathCeilDiv(DateTime(g.targetDate) - today, 30 * TicksPerDay)

isOnTrack(g, today) ==
    LET monthsNeeded == calculateMonthsRemaining(g.targetDate, g.currentAmount,
                                                 g.targetAmount,
                                                 g.monthlyContribution)
    IN  monthsNeeded <= monthsUntilTarget(g, today)

GoalDates == {-31, 0, 2, 31}

GoalExamples ==
    { [targetAmount |-> 10000, currentAmount |-> 6500, targetDate |-> 365,
       monthlyContribution |-> 500] }

SavingsGoal ==
    [targetAmount : 0..MaxAmount, currentAmount : 0..MaxAmount,
     targetDate : GoalDates, monthlyContribution : 0..MaxContribution]
        \cup GoalExamples

NoGoal == [targetAmount |-> 0, currentAmount |-> 0, targetDate |-> 0,
           monthlyContribution |-> 0]

NoPacing == [k |-> "none"]

GoalIdle == goal = NoGoal /\ pacing = NoPacing

\* one goal card of the page: the months shown and the On Track / Behind badge
SavingsPage ==
    /\ pacing' =
          [k |-> "pacing",
           at |-> now,
           monthsNeeded |->
               calculateMonthsRemaining(goal.targetDate, goal.currentAmount,
                                        goal.targetAmount,
                                        goal.monthlyContribution),
           monthsUntilTarget |-> monthsUntilTarget(goal, now),
           onTrack |-> isOnTrack(goal, now)]
    /\ UNCHANGED <<goal, debtVars, accountVars, budgetVars, billVars, now>>
    /\ UNCHANGED listVars

\* The savings page written by the deployment script.
\* today is the value of new Date() read inside the function
getDaysRemaining(targetDate, today) ==
    MathCeilDiv(DateTime(targetDate) - today, TicksPerDay)

\* (goal.targetAmount - goal.currentAmount) / Math.max(daysRemaining / 30, 1)
monthlyNeeded(g, daysRemaining) ==
    IF daysRemaining > 30
    THEN [n |-> (g.targetAmount - g.currentAmount) * 30, d |-> daysRemaining]
    ELSE [n |-> g.targetAmount - g.currentAmount, d |-> 1]

\* one goal card of the deployed page
DeployedSavingsPage ==
    /\ pacing' =
          [k |-> "deployed",
           at |-> now,
           daysRemaining |-> getDaysRemaining(goal.targetDate, now),
           monthlyNeeded |->
               monthlyNeeded(goal, getDaysRemaining(goal.targetDate, now))]
    /\ UNCHANGED <<goal, debtVars, accountVars, budgetVars, billVars, now>>
    /\ UNCHANGED listVars

(***************************************************************************)
(* BillsPage                                                               *)
(***************************************************************************)
getBillStatusTextMutOverdueFirst(b) ==
    IF b.isOverdue THEN "Overdue"
    ELSE IF b.isPaid THEN "Paid"
    ELSE "Pending"

getBillStatusText(b) ==
    IF b.isPaid THEN "Paid"
    ELSE IF b.isOverdue THEN "Overdue"
    ELSE "Pending"

\* today is the value of new Date() read inside the function
getDaysUntilDue(dueDate, today) ==
    MathCeilDiv(DateTime(dueDate) - today, TicksPerDay)

Bill == [isPaid : BOOLEAN, isOverdue : BOOLEAN, dueDate : 0..MaxDay,
         nextDueDate : 0..MaxDay]

NoBill == [isPaid |-> FALSE, isOverdue |-> FALSE, dueDate |-> 0,
           nextDueDate |-> 0]

NoView == [k |-> "none"]

BillIdle == bill = NoBill /\ billView = NoView /\ prevView = NoView

\* a status taken from the clock with the comparison reversed
BillsPageMutClockStatus ==
    /\ billView' =
          [k |-> "view",
           at |-> now,
           status |-> IF bill.isPaid THEN "Paid"
                      ELSE IF getDaysUntilDue(bill.nextDueDate, now) > 0
                           THEN "Overdue"
                      ELSE "Pending",
           daysUntilDue |-> getDaysUntilDue(bill.nextDueDate, now)]
    /\ prevView' = billView
    /\ UNCHANGED <<bill, debtVars, accountVars, budgetVars, goalVars, now>>
    /\ UNCHANGED listVars

\* one bill row of the page: the status badge and the day count; prevView
\* keeps the row of the render before
BillsPage ==
    /\ billView' =
          [k |-> "view",
           at |-> now,
           status |-> getBillStatusText(bill),
           daysUntilDue |-> getDaysUntilDue(bill.nextDueDate, now)]
    /\ prevView' = billView
    /\ UNCHANGED <<bill, debtVars, accountVars, budgetVars, goalVars, now>>
    /\ UNCHANGED listVars

(***************************************************************************)
(* DebtsPage: the summary cards and the debt cards of the whole list       *)
(***************************************************************************)
\* a / b as JavaScript computes it, kept exact: a fraction when b # 0
JsDivide(a, b) ==
    IF b # 0 THEN [k |-> "num", n |-> a, d |-> b]
    ELSE IF a = 0 THEN [k |-> "NaN", n |-> 0, d |-> 0]
    ELSE IF a > 0 THEN [k |-> "Infinity", n |-> 0, d |-> 0]
    ELSE [k |-> "-Infinity", n |-> 0, d |-> 0]

IsFinite(x) == x.k = "num"

InterestRates == {0, 1}
Progresses == {0, 50, 150}

Debt ==
    [principal : 1..MaxPrincipal, currentBalance : -1..(MaxPrincipal + 1),
     interestRate : InterestRates, progress : Progresses]

RECURSIVE totalDebt(_)
totalDebt(ds) ==
    IF ds = <<>> THEN 0 ELSE Head(ds).currentBalance + totalDebt(Tail(ds))

RECURSIVE totalPaid(_)
totalPaid(ds) ==
    IF ds = <<>> THEN 0
    ELSE (Head(ds).principal - Head(ds).currentBalance) + totalPaid(Tail(ds))

RECURSIVE weightedRates(_)
weightedRates(ds) ==
    IF ds = <<>> THEN 0
    ELSE Head(ds).interestRate * Head(ds).currentBalance
            + weightedRates(Tail(ds))

avgInterestRate(ds) == JsDivide(weightedRates(ds), totalDebt(ds))

NoSummary == [k |-> "none"]

DebtListIdle == debts = <<>> /\ debtSummary = NoSummary

\* one render: the three aggregates and, per debt card, the percent of the
\* progress line and of the bar width
DebtsPage ==
    /\ debtSummary = NoSummary
    /\ debtSummary' =
          [k |-> "summary",
           totalDebt |-> totalDebt(debts),
           totalPaid |-> totalPaid(debts),
           avgInterestRate |-> avgInterestRate(debts),
           percentPaid |-> [i \in 1..Len(debts) |-> debts[i].progress]]
    /\ UNCHANGED <<debts, recordVars, dashboardVars, goalListVars, billListVars,
                   deployedBillVars, scriptVars>>

(***************************************************************************)
(* Dashboard                                                               *)
(***************************************************************************)
DashboardData ==
    [totalBalance : 0..MaxBalance, totalDebt : 0..MaxBalance,
     monthlyIncome : 0..MaxIncome, monthlyExpenses : 0..MaxSpent]

NoData == [totalBalance |-> 0, totalDebt |-> 0, monthlyIncome |-> 1,
           monthlyExpenses |-> 0]

savingsRate(d) ==
    JsDivide((d.monthlyIncome - d.monthlyExpenses) * 100, d.monthlyIncome)

DashboardIdle == data = NoData /\ dashboard = NoSummary

Dashboard ==
    /\ dashboard = NoSummary
    /\ dashboard' =
          [k |-> "summary",
           netWorth |-> data.totalBalance - data.totalDebt,
           savingsRate |-> savingsRate(data)]
    /\ UNCHANGED <<data, recordVars, debtListVars, goalListVars, billListVars,
                   deployedBillVars, scriptVars>>

(***************************************************************************)
(* SavingsPage: the figures over the whole list of goals                   *)
(***************************************************************************)
ListedGoal ==
    [targetAmount : 0..MaxTarget, currentAmount : 0..MaxTarget,
     monthlyContribution : 0..1, isActive : BOOLEAN]

IsActive(g) == g.isActive

activeGoals(gs) == SelectSeq(gs, IsActive)

RECURSIVE totalTargetAmount(_)
totalTargetAmount(gs) ==
    IF gs = <<>> THEN 0 ELSE Head(gs).targetAmount + totalTargetAmount(Tail(gs))

RECURSIVE totalCurrentAmount(_)
totalCurrentAmount(gs) ==
    IF gs = <<>> THEN 0
    ELSE Head(gs).currentAmount + totalCurrentAmount(Tail(gs))

overallProgress(gs) ==
    IF totalTargetAmount(gs) > 0
    THEN JsDivide(totalCurrentAmount(gs) * 100, totalTargetAmount(gs))
    ELSE JsDivide(0, 1)

RECURSIVE totalMonthsRemaining(_)
totalMonthsRemaining(gs) ==
    IF gs = <<>> THEN 0
    ELSE calculateMonthsRemaining(0, Head(gs).currentAmount,
                                  Head(gs).targetAmount,
                                  Head(gs).monthlyContribution)
            + totalMonthsRemaining(Tail(gs))

\* Math.ceil(sum / activeGoals.length); the sum is never negative
averageMonths(gs) ==
    IF Len(gs) = 0 THEN NaN
    ELSE Num(MathCeilDiv(totalMonthsRemaining(gs), Len(gs)))

GoalListIdle == goals = <<>> /\ goalSummary = NoSummary

SavingsSummary ==
    /\ goalSummary = NoSummary
    /\ goalSummary' =
          [k |-> "summary",
           overallProgress |-> overallProgress(activeGoals(goals)),
           averageMonths |-> averageMonths(activeGoals(goals)),
           months |-> [i \in 1..Len(activeGoals(goals)) |->
                          calculateMonthsRemaining(0,
                              activeGoals(goals)[i].currentAmount,
                              activeGoals(goals)[i].targetAmount,
                              activeGoals(goals)[i].monthlyContribution)]]
    /\ UNCHANGED <<goals, recordVars, debtListVars, dashboardVars, billListVars,
                   deployedBillVars, scriptVars>>

(***************************************************************************)
(* BillsPage: the groups of the summary cards and of the filter tabs       *)
(***************************************************************************)
ListedBill == [isPaid : BOOLEAN, isOverdue : BOOLEAN]

Filters == {"all", "unpaid", "paid", "overdue", "upcoming"}

\* the groups are sets of positions in the list
paidBills(bs) == { i \in 1..Len(bs) : bs[i].isPaid }

unpaidBills(bs) == { i \in 1..Len(bs) : ~bs[i].isPaid }

overdueBills(bs) == { i \in 1..Len(bs) : bs[i].isOverdue }

upcomingBills(bs) == { i \in 1..Len(bs) : ~bs[i].isPaid /\ ~bs[i].isOverdue }

filteredBills(bs, selectedFilter) ==
    IF selectedFilter = "paid" THEN paidBills(bs)
    ELSE IF selectedFilter = "unpaid" THEN unpaidBills(bs)
    ELSE IF selectedFilter = "overdue" THEN overdueBills(bs)
    ELSE IF selectedFilter = "upcoming" THEN upcomingBills(bs)
    ELSE 1..Len(bs)

BillListIdle == bills = <<>> /\ billSummary = NoSummary

\* one render under the filter selected at the time
BillsSummary ==
    /\ \E selectedFilter \in Filters :
          billSummary' =
             [k |-> "summary",
              selectedFilter |-> selectedFilter,
              paidBills |-> paidBills(bills),
              unpaidBills |-> unpaidBills(bills),
              overdueBills |-> overdueBills(bills),
              upcomingBills |-> upcomingBills(bills),
              filteredBills |-> filteredBills(bills, selectedFilter)]
    /\ UNCHANGED <<bills, recordVars, debtListVars, dashboardVars,
                   goalListVars, deployedBillVars, scriptVars>>

(***************************************************************************)
(* The bills page written by the deployment script                         *)
(***************************************************************************)
Statuses == {"paid", "pending", "overdue"}

DeployedBill == [dueDate : 0..MaxDay, status : Statuses]

\* x placed behind every element that is not due later than x
RECURSIVE InsertByDueDate(_, _)
InsertByDueDate(x, bs) ==
    IF bs = <<>> THEN <<x>>
    ELSE IF bs[Len(bs)].dueDate <= x.dueDate THEN Append(bs, x)
    ELSE Append(InsertByDueDate(x, SubSeq(bs, 1, Len(bs) - 1)), bs[Len(bs)])

\* Array.prototype.sort with the comparator a.dueDate - b.dueDate: stable
RECURSIVE SortByDueDate(_)
SortByDueDate(bs) ==
    IF bs = <<>> THEN <<>>
    ELSE InsertByDueDate(bs[Len(bs)],
                         SortByDueDate(SubSeq(bs, 1, Len(bs) - 1)))

upcomingCount(bs, today) ==
    Cardinality({ i \in 1..Len(bs) :
                    /\ getDaysUntilDue(bs[i].dueDate, today) <= 7
                    /\ bs[i].status = "pending" })

NoUpcoming == [k |-> "none"]

DeployedBillsIdle == deployedBills = <<>> /\ upcoming = NoUpcoming

\* one render: the counts, then bills.sort(...).map(...) on the state array
DeployedBillsPage ==
    /\ upcoming' =
          [k |-> "upcoming",
           upcomingCount |-> upcomingCount(deployedBills, now),
           rows |-> SortByDueDate(deployedBills)]
    /\ deployedBills' = SortByDueDate(deployedBills)
    /\ UNCHANGED <<recordVars, debtListVars, dashboardVars, goalListVars,
                   billListVars, scriptVars>>

(***************************************************************************)
(* The deployment script: its configuration section and main               *)
(***************************************************************************)
\* an environment variable that is unset or empty: ${VAR:-default} takes
\* the default in both cases
Unset == ""
UnsetPort == -1

Environment ==
    [APP_PORT : {UnsetPort, 0, 3000, 8080, 9000},
     APP_DIR : {Unset, "/srv/finance"},
     APP_USER : {Unset, "webapp", "Web App"},
     ENABLE_SSL : {Unset, "true"},
     APP_DOMAIN : {Unset, "myfinance.com"},
     SSL_EMAIL : {Unset, "admin@myfinance.com"},
     arg : {Unset, "--help"}]

NoEnvironment ==
    [APP_PORT |-> UnsetPort, APP_DIR |-> Unset, APP_USER |-> Unset,
     ENABLE_SSL |-> Unset, APP_DOMAIN |-> Unset, SSL_EMAIL |-> Unset,
     arg |-> Unset]

\* the names that match ^[a-z_][a-z0-9_-]*$
ValidUsers == {"financeapp", "webapp"}

\* the host: the effective user id of the run and the accounts that exist
Host == [euid : {0, 1000}, users : SUBSET ValidUsers]

NoHost == [euid |-> 0, users |-> {}]

MainSequence ==
    << "check_root", "validate_configuration", "install_dependencies",
       "setup_repository", "install_nodejs", "create_app_user",
       "deploy_application", "create_database_schema",
       "create_application_files", "build_application",
       "configure_systemd_service", "configure_nginx", "configure_ssl",
       "configure_firewall", "generate_deployment_report",
       "show_deployment_summary" >>

\* the phases that change nothing of the state kept here
PlainPhases ==
    { "install_dependencies", "install_nodejs", "deploy_application",
      "create_database_schema", "configure_systemd_service",
      "configure_nginx", "configure_ssl", "configure_firewall",
      "generate_deployment_report", "show_deployment_summary" }

NoDeploy ==
    [pc |-> 0, status |-> "idle", failedAt |-> "", APP_PORT |-> UnsetPort,
     APP_DIR |-> Unset, APP_USER |-> Unset]

DeployIdle == env = NoEnvironment /\ host = NoHost /\ deploy = NoDeploy

At(phase) ==
    /\ deploy.status = "running"
    /\ deploy.pc \in 1..Len(MainSequence)
    /\ MainSequence[deploy.pc] = phase

\* the phase returns; after the last one main prints and the script exits 0
Advance ==
    [deploy EXCEPT !.pc = @ + 1,
                   !.status = IF deploy.pc = Len(MainSequence)
                              THEN "done" ELSE "running"]

\* set -e or print_error: the script exits 1 in this phase
Abort == [deploy EXCEPT !.status = "failed",
                        !.failedAt = MainSequence[deploy.pc]]

DeployFrame == UNCHANGED <<recordVars, pageListVars, serverVars>>

\* the configuration section, then the test of --help at the head of main
Configuration ==
    /\ deploy = NoDeploy
    /\ deploy' =
          [pc |-> 1,
           status |-> IF env.arg = "--help" THEN "help" ELSE "running",
           failedAt |-> "",
           APP_PORT |-> IF env.APP_PORT = UnsetPort THEN 8080
                        ELSE env.APP_PORT,
           APP_DIR |-> "/var/www/finance",
           APP_USER |-> IF env.APP_USER = Unset THEN "financeapp"
                        ELSE env.APP_USER]
    /\ UNCHANGED <<env, host>>
    /\ DeployFrame

check_root ==
    /\ At("check_root")
    /\ deploy' = IF host.euid # 0 THEN Abort ELSE Advance
    /\ UNCHANGED <<env, host>>
    /\ DeployFrame

validate_configuration ==
    /\ At("validate_configuration")
    /\ deploy' =
          IF \/ deploy.APP_PORT < 1 \/ deploy.APP_PORT > 65535
             \/ deploy.APP_USER \notin ValidUsers
             \/ /\ env.ENABLE_SSL = "true"
                /\ (env.APP_DOMAIN = Unset \/ env.SSL_EMAIL = Unset)
          THEN Abort ELSE Advance
    /\ UNCHANGED <<env, host>>
    /\ DeployFrame

\* a command given APP_USER (chown, sudo -u) fails when the account does
\* not exist
UserExists == deploy.APP_USER \in host.users

\* clone or update, then chown -R "$APP_USER:$APP_USER" "$APP_DIR"
setup_repository ==
    /\ At("setup_repository")
    /\ deploy' = IF UserExists THEN Advance ELSE Abort
    /\ UNCHANGED <<env, host>>
    /\ DeployFrame

\* useradd unless id finds the account, then chown of the directory
create_app_user ==
    /\ At("create_app_user")
    /\ host' = [host EXCEPT !.users = @ \cup {deploy.APP_USER}]
    /\ deploy' = Advance
    /\ UNCHANGED env
    /\ DeployFrame

\* the files of the application, then chown -R
create_application_files ==
    /\ At("create_application_files")
    /\ deploy' = IF UserExists THEN Advance ELSE Abort
    /\ UNCHANGED <<env, host>>
    /\ DeployFrame

\* sudo -u "$APP_USER" npm ci, npm run build, prisma
build_application ==
    /\ At("build_application")
    /\ deploy' = IF UserExists THEN Advance ELSE Abort
    /\ UNCHANGED <<env, host>>
    /\ DeployFrame

Phase ==
    /\ \E phase \in PlainPhases : At(phase)
    /\ deploy' = Advance
    /\ UNCHANGED <<env, host>>
    /\ DeployFrame

(***************************************************************************)
(* The server setup script: configure_firewall                             *)
(***************************************************************************)
Toggles ==
    [SKIP_SECURITY : {"true", "false"}, ENABLE_UFW : {"true", "false", "yes"},
     INSTALL_NGINX : {"true", "false"}, SSH_PORT : {22, 2222}]

NoToggles ==
    [SKIP_SECURITY |-> "false", ENABLE_UFW |-> "true",
     INSTALL_NGINX |-> "false", SSH_PORT |-> 22]

\* a ufw command line; port is 0 where the command names none
Ufw(op, port) == [op |-> op, port |-> port]

\* the commands without the rule for SSH
configure_firewallMutNoSsh(t) ==
    IF t.SKIP_SECURITY = "true" \/ t.ENABLE_UFW # "true" THEN <<>>
    ELSE <<Ufw("reset", 0), Ufw("default deny incoming", 0),
           Ufw("default allow outgoing", 0)>>
         \o (IF t.INSTALL_NGINX = "true"
             THEN <<Ufw("allow", 80), Ufw("allow", 443)>> ELSE <<>>)
         \o <<Ufw("enable", 0)>>

\* the ufw commands of the function in the order it runs them
configure_firewall(t) ==
    IF t.SKIP_SECURITY = "true" \/ t.ENABLE_UFW # "true" THEN <<>>
    ELSE <<Ufw("reset", 0), Ufw("default deny incoming", 0),
           Ufw("default allow outgoing", 0), Ufw("allow", t.SSH_PORT)>>
         \o (IF t.INSTALL_NGINX = "true"
             THEN <<Ufw("allow", 80), Ufw("allow", 443)>> ELSE <<>>)
         \o <<Ufw("enable", 0)>>

\* the firewall of the host: whether it is enabled, the ports it allows and
\* the commands run so far
UfwStates == [enabled : BOOLEAN, allowed : SUBSET {22, 80}, log : {<<>>}]

NoUfw == [enabled |-> FALSE, allowed |-> {}, log |-> <<>>]

NoFirewall == [pc |-> 1, status |-> "idle"]

ServerIdle == toggles = NoToggles /\ ufw = NoUfw /\ firewall = NoFirewall

\* what a command that succeeds does to the firewall
UfwApply(u, c) ==
    [enabled |-> IF c.op = "reset" THEN FALSE
                 ELSE IF c.op = "enable" THEN TRUE ELSE u.enabled,
     allowed |-> IF c.op = "reset" THEN {}
                 ELSE IF c.op = "allow" THEN u.allowed \cup {c.port}
                 ELSE u.allowed,
     log |-> Append(u.log, c)]

\* the test at the head of the function
ConfigureFirewall ==
    /\ firewall.status = "idle"
    /\ firewall' =
          [pc |-> 1,
           status |-> IF configure_firewall(toggles) = <<>> THEN "skipped"
                      ELSE "running"]
    /\ UNCHANGED <<toggles, ufw, recordVars, pageListVars, deployVars>>

\* the next ufw command: it succeeds, or it fails and set -e ends the script
RunUfw ==
    /\ firewall.status = "running"
    /\ \E ok \in BOOLEAN :
          IF ok
          THEN /\ ufw' = UfwApply(ufw, configure_firewall(toggles)[firewall.pc])
               /\ firewall' =
                     [pc |-> firewall.pc + 1,
                      status |-> IF firewall.pc
                                      = Len(configure_firewall(toggles))
                                 THEN "done" ELSE "running"]
          ELSE /\ ufw' = ufw
               /\ firewall' = [firewall EXCEPT !.status = "failed"]
    /\ UNCHANGED <<toggles, recordVars, pageListVars, deployVars>>

ListsIdle ==
    /\ DebtListIdle /\ DashboardIdle /\ GoalListIdle /\ BillListIdle
    /\ DeployedBillsIdle /\ DeployIdle /\ ServerIdle

\* the list pages are not loaded
PagesIdle ==
    /\ DebtListIdle /\ DashboardIdle /\ GoalListIdle /\ BillListIdle
    /\ DeployedBillsIdle

(***************************************************************************)
(* Specifications, one per page                                            *)
(***************************************************************************)
InitDebt ==
    /\ debt \in DebtInputs
    /\ months = None
    /\ payoff = NoPayoff
    /\ AccountsIdle /\ BudgetIdle /\ GoalIdle /\ BillIdle
    /\ ListsIdle
    /\ now = 0

NextDebt == CalculatePayoffDate

SpecDebt == InitDebt /\ [][NextDebt]_vars

NextPayoff == ComputePayoff

SpecPayoff == InitDebt /\ [][NextPayoff]_vars

InitAccounts ==
    /\ accounts \in SeqsUpTo(Account, MaxAccounts)
    /\ net = NoNet
    /\ DebtIdle /\ BudgetIdle /\ GoalIdle /\ BillIdle
    /\ ListsIdle
    /\ now = 0

NextAccounts == AccountsPage \/ DeployedAccountsPage

SpecAccounts == InitAccounts /\ [][NextAccounts]_vars

InitBudget ==
    /\ budget \in [monthlyIncome : 0..MaxIncome, payFrequency : PayFrequencies,
                   spent : 0..MaxSpent] \cup BudgetExamples
    /\ currentPeriod = NoPeriod
    /\ DebtIdle /\ AccountsIdle /\ GoalIdle /\ BillIdle
    /\ ListsIdle
    /\ now = 0

NextBudget == BudgetPage

SpecBudget == InitBudget /\ [][NextBudget]_vars

InitSavings ==
    /\ goal \in SavingsGoal
    /\ pacing = NoPacing
    /\ DebtIdle /\ AccountsIdle /\ BudgetIdle /\ BillIdle
    /\ ListsIdle
    /\ now = 0

NextSavings == SavingsPage \/ DeployedSavingsPage \/ Tick

SpecSavings == InitSavings /\ [][NextSavings]_vars

InitBills ==
    /\ bill \in Bill
    /\ billView = NoView
    /\ prevView = NoView
    /\ DebtIdle /\ AccountsIdle /\ BudgetIdle /\ GoalIdle
    /\ ListsIdle
    /\ now = 0

NextBills == BillsPage \/ Tick

SpecBills == InitBills /\ [][NextBills]_vars

(***************************************************************************)
(* Properties                                                              *)
(***************************************************************************)

\* payment <= balance * monthlyRate: the payment does not cover the interest
Unpayable(d) == PaymentLessInterest(d.balance, d.rate, d.payment) <= 0

\* C1: for every input with monthlyPayment <= balance * monthlyRate the
\* payoff calculation fails with UnpayableDebt; it returns no month count,
\* NaN or Infinity.
C1_UnpayableDebtFails ==
    (months # None /\ Unpayable(debt)) => months.k = "UnpayableDebt"

\* C2: at annual rate 0 and payment > 0 the payoff calculation returns
\* ceil(balance / monthlyPayment) months.
C2_ZeroRateMonths ==
    (months # None /\ debt.rate = 0 /\ debt.payment > 0)
        => months = Num(MathCeilDiv(debt.balance, debt.payment))

HasPositiveBalance(a) == a.balance > 0

\* C3: totalAssets is the sum of the positive balances of all accounts,
\* credit accounts included (a credit float is an asset).
C3_CreditFloatIsAsset ==
    net.page # "none"
        => net.totalAssets = SumBalance(SelectSeq(accounts, HasPositiveBalance))

periodsPerYear(frequency) ==
    CASE frequency = "weekly" -> 52
      [] frequency = "bi-weekly" -> 26
      [] frequency = "monthly" -> 12
      [] frequency = "quarterly" -> 4
      [] frequency = "yearly" -> 1

\* C4 as stated: periodIncome = monthlyIncome * periodsPerYear(frequency) / 12.
C4_PeriodIncomeAsStated ==
    currentPeriod.k = "period"
        => currentPeriod.income.n * 12 =
              budget.monthlyIncome * periodsPerYear(budget.payFrequency)
                  * currentPeriod.income.d

\* C4 (amended): the income used for the pay period is
\* monthlyIncome * 12 / 26, whatever the pay frequency.
C4_BiWeeklyIncome ==
    currentPeriod.k = "period"
        => currentPeriod.income.n * 26 =
              budget.monthlyIncome * 12 * currentPeriod.income.d

C4_Witness ==
    /\ currentPeriod.k = "period"
    /\ budget.payFrequency = "bi-weekly"
    /\ budget.monthlyIncome = 3
    /\ currentPeriod.income = [n |-> 36, d |-> 26]

\* C5: a goal with monthlyContribution <= 0 and remaining > 0 is Unreachable:
\* it gets no finite monthsNeeded and is never on track.
C5_UnreachableGoal ==
    (/\ pacing.k = "pacing"
     /\ goal.monthlyContribution <= 0
     /\ goal.targetAmount - goal.currentAmount > 0)
        => (pacing.monthsNeeded \notin Int /\ ~pacing.onTrack)

\* C6: an unpaid bill is Overdue exactly when dueDate < asOfDate and Pending
\* otherwise.
C6_StatusFromDueDate ==
    (billView.k = "view" /\ ~bill.isPaid)
        => /\ billView.status = "Overdue"
                <=> DateTime(bill.dueDate) < billView.at
           /\ billView.status = "Pending"
                <=> ~(DateTime(bill.dueDate) < billView.at)

\* C7: every bill has exactly one of the statuses Paid, Overdue, Pending, and
\* a bill whose paid flag is set is Paid whatever its due date.
C7_PaidFlagWins ==
    billView.k = "view"
        => /\ billView.status \in {"Paid", "Overdue", "Pending"}
           /\ bill.isPaid => billView.status = "Paid"

C7_Witness ==
    /\ billView.k = "view"
    /\ bill.isPaid
    /\ bill.isOverdue
    /\ DateTime(bill.dueDate) < billView.at
    /\ billView.status = "Paid"

\* C8: two renders of the same bill give the same day count: the result
\* depends on the explicit inputs only, not on the clock.
C8_SameInputsSameOutputs ==
    (billView.k = "view" /\ prevView.k = "view")
        => /\ billView.daysUntilDue = prevView.daysUntilDue
           /\ billView.status = prevView.status

IsCreditDebt(a) == a.type = "credit" /\ a.balance < 0

\* C9: totalLiabilities is the sum of |balance| over the credit accounts
\* with balance < 0; no other account contributes to it.
C9_OnlyCreditDebtIsLiability ==
    net.page # "none"
        => net.totalLiabilities = SumAbsBalance(SelectSeq(accounts, IsCreditDebt))

\* C10: netWorth = totalAssets - totalLiabilities, and all three are 0 for
\* an empty list of accounts.
C10_NetWorth ==
    net.page # "none"
        => /\ net.netWorth = net.totalAssets - net.totalLiabilities
           /\ accounts = <<>>
                => (net.totalAssets = 0 /\ net.totalLiabilities = 0
                    /\ net.netWorth = 0)

C10_Witness ==
    /\ net.page # "none"
    /\ Len(accounts) = 2
    /\ net.totalAssets = 1
    /\ net.totalLiabilities = 2
    /\ net.netWorth = -1

\* payment > balance * monthlyRate
Payable(d) == PaymentLessInterest(d.balance, d.rate, d.payment) > 0

\* C11 as stated: for rate > 0 and payment > balance * monthlyRate the month
\* count is a positive integer and at least ceil(balance / payment).
C11_PositiveMonthsAsStated ==
    (months # None /\ debt.rate > 0 /\ Payable(debt))
        => /\ months.k = "num"
           /\ months.v > 0
           /\ months.v >= MathCeilDiv(debt.balance, debt.payment)

\* C11 (amended): for rate > 0 and payment > balance * monthlyRate the month
\* count is an integer >= ceil(balance / payment); it is positive when
\* balance > 0 and 0 when balance = 0.
C11_MonthsAtLeastZeroRate ==
    (months # None /\ debt.rate > 0 /\ Payable(debt))
        => /\ months.k = "num"
           /\ months.v >= MathCeilDiv(debt.balance, debt.payment)
           /\ debt.balance > 0 => months.v > 0
           /\ debt.balance = 0 => months.v = 0

C11_Witness ==
    /\ months = Num(3)
    /\ debt = [balance |-> 4, rate |-> 600, payment |-> 3]

\* C12: with rate and payment fixed, every payable balance b1 below a payable
\* balance b2 has monthsToPayoff(b1) <= monthsToPayoff(b2).
C12_MonotoneInBalance ==
    (months # None /\ Payable(debt))
        => \A b1 \in 0..debt.balance :
              Payable([debt EXCEPT !.balance = b1])
                  => LET m1 == calculatePayoffDate(b1, debt.rate, debt.payment)
                     IN  /\ m1.k = "num"
                         /\ months.k = "num"
                         /\ m1.v <= months.v

C14_DivisionByZeroGuarded ==
    (currentPeriod.k = "period" /\ budget.monthlyIncome <= 0)
        => currentPeriod.percentUsed.k = "DivisionByZero"

\* C15: onTrack = (monthsNeeded <= monthsAvailable), and a goal with
\* remaining = 0 (current >= target) is on track whatever its target date.
C15_CompletedGoalOnTrack ==
    pacing.k = "pacing"
        => /\ pacing.onTrack
                <=> pacing.monthsNeeded <= pacing.monthsUntilTarget
           /\ goal.currentAmount >= goal.targetAmount => pacing.onTrack

\* C16: with remaining = max(target - current, 0), monthsNeeded is 0 when
\* remaining = 0 and ceil(remaining / monthlyContribution) when remaining > 0
\* and monthlyContribution > 0.
C16_MonthsNeeded ==
    pacing.k = "pacing"
        => LET diff == goal.targetAmount - goal.currentAmount
               remaining == IF diff > 0 THEN diff ELSE 0
           IN  /\ remaining = 0 => pacing.monthsNeeded = 0
               /\ (remaining > 0 /\ goal.monthlyContribution > 0)
                     => /\ pacing.monthsNeeded * goal.monthlyContribution
                              >= remaining
                        /\ (pacing.monthsNeeded - 1) * goal.monthlyContribution
                              < remaining

C16_Witness ==
    /\ pacing.k = "pacing"
    /\ goal.targetAmount = 10000
    /\ goal.currentAmount = 6500
    /\ goal.monthlyContribution = 500
    /\ pacing.monthsNeeded = 7

\* C17: monthsAvailable = ceil(D / 30) for the number of days D from the
\* date of the computation to the target date.
C17_FlatThirtyDayMonths ==
    pacing.k = "pacing"
        => LET D == MathCeilDiv(DateTime(goal.targetDate) - pacing.at,
                                TicksPerDay)
           IN  /\ (pacing.monthsUntilTarget - 1) * 30 < D
               /\ D <= pacing.monthsUntilTarget * 30

C17_Witness ==
    /\ pacing.k = "pacing"
    /\ goal.targetDate = 31
    /\ pacing.at = 1
    /\ pacing.monthsUntilTarget = 2

\* C18: requiredMonthlyContribution = remaining / max(monthsAvailable, 1)
\* with remaining = max(target - current, 0) and
\* monthsAvailable = ceil(days to target / 30).
C18_RequiredContribution ==
    pacing.k = "deployed"
        => LET diff == goal.targetAmount - goal.currentAmount
               remaining == IF diff > 0 THEN diff ELSE 0
               available == MathCeilDiv(DateTime(goal.targetDate) - pacing.at,
                                        30 * TicksPerDay)
               divisor == IF available > 1 THEN available ELSE 1
           IN  pacing.monthlyNeeded.n * divisor
                   = remaining * pacing.monthlyNeeded.d

\* C19: an unpaid bill has status Overdue exactly when its day count
\* daysUntilDue = ceil(days from the date of the render to the due date) is
\* negative.
C19_OverdueIffNegativeDays ==
    (billView.k = "view" /\ ~bill.isPaid)
        => (billView.status = "Overdue" <=> billView.daysUntilDue < 0)

StatusChanges ==
    { <<"Pending", "Paid">>, <<"Pending", "Overdue">>, <<"Overdue", "Paid">> }

RecordsIdle ==
    /\ DebtIdle /\ AccountsIdle /\ BudgetIdle /\ GoalIdle /\ BillIdle
    /\ now = 0

InitDebtList ==
    /\ debts \in SeqsUpTo(Debt, MaxDebts)
    /\ debtSummary = NoSummary
    /\ DashboardIdle /\ GoalListIdle /\ BillListIdle /\ DeployedBillsIdle
    /\ RecordsIdle /\ DeployIdle /\ ServerIdle

NextDebtList == DebtsPage

SpecDebtList == InitDebtList /\ [][NextDebtList]_vars

\* C21: the percent shown for a debt is (principal - balance) / principal
\* x 100 clamped to [0, 100]: it lies in [0, 100] for every principal > 0
\* and equals the unclamped formula when 0 <= balance <= principal.
C21_PercentPaidClamped ==
    debtSummary.k = "summary"
        => \A i \in 1..Len(debts) :
              /\ debtSummary.percentPaid[i] >= 0
              /\ debtSummary.percentPaid[i] <= 100
              /\ (debts[i].currentBalance >= 0
                    /\ debts[i].currentBalance <= debts[i].principal)
                   => debtSummary.percentPaid[i] * debts[i].principal
                        = (debts[i].principal - debts[i].currentBalance) * 100

InitDashboard ==
    /\ data \in DashboardData
    /\ dashboard = NoSummary
    /\ DebtListIdle /\ GoalListIdle /\ BillListIdle /\ DeployedBillsIdle
    /\ RecordsIdle /\ DeployIdle /\ ServerIdle

InitGoalList ==
    /\ goals \in SeqsUpTo(ListedGoal, MaxGoals)
    /\ goalSummary = NoSummary
    /\ DebtListIdle /\ DashboardIdle /\ BillListIdle /\ DeployedBillsIdle
    /\ RecordsIdle /\ DeployIdle /\ ServerIdle

\* one of the three pages is loaded with its data
InitAggregates == InitDebtList \/ InitDashboard \/ InitGoalList

NextAggregates == DebtsPage \/ Dashboard \/ SavingsSummary

SpecAggregates == InitAggregates /\ [][NextAggregates]_vars

\* C22: no aggregate shown is NaN or +-Infinity: the average interest rate
\* of the debts page, the savings rate of the dashboard and the average
\* months to goal of the savings page are each a finite number.
C22_AggregatesAreFinite ==
    /\ debtSummary.k = "summary" => IsFinite(debtSummary.avgInterestRate)
    /\ dashboard.k = "summary" => IsFinite(dashboard.savingsRate)
    /\ goalSummary.k = "summary" => IsFinite(goalSummary.averageMonths)

\* the two pages that take an income or a target
InitCalculators == InitBudget \/ InitGoalList

NextCalculators == BudgetPage \/ SavingsSummary

SpecCalculators == InitCalculators /\ [][NextCalculators]_vars

\* C23: a calculation given monthlyIncome <= 0 or a target <= 0 is rejected
\* with InvalidInput before anything is computed: no period figures are
\* produced for such an income and no numeric progress for such a target.
C23_InvalidInputRejected ==
    /\ budget.monthlyIncome <= 0 => currentPeriod.k # "period"
    /\ (/\ goalSummary.k = "summary"
        /\ \E i \in 1..Len(goals) :
              goals[i].isActive /\ goals[i].targetAmount <= 0)
          => goalSummary.overallProgress.k = "InvalidInput"

\* C24: over the list of active goals a failure on one element (a goal whose
\* target is not positive) does not abort the batch: that element is
\* reported as failed, not given a number, and every other element keeps the
\* result it has when computed alone.
C24_BatchIsolatesFailures ==
    goalSummary.k = "summary"
        => LET act == activeGoals(goals)
           IN  \A i \in 1..Len(act) :
                  IF act[i].targetAmount <= 0
                  THEN goalSummary.months[i] \notin Int
                  ELSE goalSummary.months[i]
                          = calculateMonthsRemaining(0, act[i].currentAmount,
                                act[i].targetAmount,
                                act[i].monthlyContribution)

InitDeployedBills ==
    /\ deployedBills \in SeqsUpTo(DeployedBill, MaxBills)
    /\ upcoming = NoUpcoming
    /\ DebtListIdle /\ DashboardIdle /\ GoalListIdle /\ BillListIdle
    /\ RecordsIdle /\ DeployIdle /\ ServerIdle

NextDeployedBills == DeployedBillsPage \/ Tick

SpecDeployedBills == InitDeployedBills /\ [][NextDeployedBills]_vars

\* C25: computing a view leaves the input collection unchanged: after any
\* step the list of bills holds the same records in the same order.
C25_InputUnchanged == [][deployedBills' = deployedBills]_vars

InitBillList ==
    /\ bills \in SeqsUpTo(ListedBill, MaxBills)
    /\ billSummary = NoSummary
    /\ DebtListIdle /\ DashboardIdle /\ GoalListIdle /\ DeployedBillsIdle
    /\ RecordsIdle /\ DeployIdle /\ ServerIdle

NextBillList == BillsSummary

SpecBillList == InitBillList /\ [][NextBillList]_vars

\* C26: the Paid, Overdue and Upcoming groups are pairwise disjoint and
\* their sizes sum to the number of bills.
C26_GroupsPartitionBills ==
    billSummary.k = "summary"
        => /\ billSummary.paidBills \cap billSummary.overdueBills = {}
           /\ billSummary.paidBills \cap billSummary.upcomingBills = {}
           /\ billSummary.overdueBills \cap billSummary.upcomingBills = {}
           /\ Cardinality(billSummary.paidBills)
                + Cardinality(billSummary.overdueBills)
                + Cardinality(billSummary.upcomingBills) = Len(bills)

InitDeploy ==
    /\ env \in Environment
    /\ host \in Host
    /\ deploy = NoDeploy
    /\ PagesIdle /\ ServerIdle
    /\ RecordsIdle

NextDeploy ==
    \/ Configuration \/ check_root \/ validate_configuration
    \/ setup_repository \/ create_app_user \/ create_application_files
    \/ build_application \/ Phase

SpecDeploy == InitDeploy /\ [][NextDeploy]_vars

\* C27: the script takes APP_PORT from the environment with the default
\* 3000 and APP_DIR from the environment with the default
\* /opt/personal-finance-app, as its --help text says.
C27_DocumentedDefaults ==
    deploy.status # "idle"
        => /\ deploy.APP_PORT = IF env.APP_PORT = UnsetPort THEN 3000
                                ELSE env.APP_PORT
           /\ deploy.APP_DIR = IF env.APP_DIR = Unset
                               THEN "/opt/personal-finance-app"
                               ELSE env.APP_DIR

UserPhases ==
    { "setup_repository", "create_application_files", "build_application" }

\* C28: no run aborts in a phase that needs the application user: each such
\* phase runs after create_app_user, also when the account does not exist
\* at the start.
C28_UserCreatedBeforeUse ==
    deploy.status = "failed" => deploy.failedAt \notin UserPhases

InitServer ==
    /\ toggles \in Toggles
    /\ ufw \in UfwStates
    /\ firewall = NoFirewall
    /\ PagesIdle /\ DeployIdle
    /\ RecordsIdle

NextServer == ConfigureFirewall \/ RunUfw

SpecServer == InitServer /\ [][NextServer]_vars

IsSshRule(c) == c.op = "allow" /\ c.port = toggles.SSH_PORT

\* C29: every enable in the commands run is preceded by a rule allowing
\* SSH_PORT/tcp that was added after the last reset before it; and when
\* SKIP_SECURITY is true or ENABLE_UFW is not true no command is run at all,
\* so the firewall is neither reset nor enabled.
C29_SshAllowedBeforeEnable ==
    /\ \A i \in 1..Len(ufw.log) :
          ufw.log[i].op = "enable"
             => \E j \in 1..(i - 1) :
                   /\ IsSshRule(ufw.log[j])
                   /\ \E r \in 1..(j - 1) : ufw.log[r].op = "reset"
                   /\ \A r \in (j + 1)..(i - 1) : ufw.log[r].op # "reset"
    /\ (toggles.SKIP_SECURITY = "true" \/ toggles.ENABLE_UFW # "true")
          => ufw.log = <<>>

C29_Witness ==
    /\ firewall.status = "done"
    /\ toggles.SSH_PORT = 2222
    /\ toggles.INSTALL_NGINX = "true"
    /\ ufw.enabled
    /\ ufw.allowed = {80, 443, 2222}

\* C30: at most one recommendation is shown: the over-budget alert exactly
\* when remaining < 0, the tip exactly when 0 < remaining < 200, the
\* congratulation exactly when remaining >= 200, and none when remaining = 0.
C30_OneRecommendation ==
    currentPeriod.k = "period"
        => LET r == currentPeriod.remaining
               shown == currentPeriod.recommendations
           IN  /\ Cardinality(shown) <= 1
               /\ "Over Budget Alert" \in shown <=> r.n < 0
               /\ "Budget Tip" \in shown <=> (0 < r.n /\ r.n < 200 * r.d)
               /\ "Great Job!" \in shown <=> r.n >= 200 * r.d
               /\ r.n = 0 => shown = {}

C30_Witness ==
    /\ currentPeriod.k = "period"
    /\ budget.monthlyIncome = 650
    /\ budget.spent = 100
    /\ currentPeriod.remaining.n = 200 * currentPeriod.remaining.d
    /\ currentPeriod.recommendations = {"Great Job!"}

====
